---- MODULE Spec2Model ----
(***************************************************************************)
(* Model of the Paradox integration (custom_components/paradox): the       *)
(* ParadoxDevice session object (device.py), the config-entry setup and    *)
(* unload of __init__.py, the status coordinator, and the alarm and camera *)
(* entities that call into the device.                                     *)
(*                                                                         *)
(* Granularity: a coroutine runs atomically from one await of a remote     *)
(* call (login, pingstatus, areacontrol, rod, vod) to the next, as asyncio *)
(* schedules it.  A "call" step runs an operation up to its first await;   *)
(* a "resume" step delivers the outcome of the awaited call, chosen by the *)
(* module/network, and runs the continuation to the next await or to the   *)
(* return.                                                                 *)
(***************************************************************************)
EXTENDS Integers, Sequences, FiniteSets, Bags, TLC

\* ---------------------------------------------------------------- bounds
MaxTasks == 2       \* entity operations (stream / area / rod) in flight at once
MaxTasksData == 1   \* the same, in the specifications that vary the payloads
MaxSerial == 2      \* serial numbers the module may report: 1..MaxSerial

Serials == 1..MaxSerial

\* ------------------------------------------------------------- constants
CAMERA_BANDWIDTH_Low == 128000
CAMERA_BANDWIDTH_Normal == 256000
CAMERA_BANDWIDTH_High == 512000
ROD_SUCCESS == 33816578
ROD_START == 3
ROD_STOP == 4
CMD_DISARM == 6
CMD_ARM_HOME == 3
CMD_ARM_AWAY == 2

CAMERA_PROFILES == {"Low", "Normal", "High"}
DEFAULT_CAMERA_PROFILE == "Normal"

CAMERA_BANDWIDTH(profile) ==
    CASE profile = "Low" -> CAMERA_BANDWIDTH_Low
      [] profile = "Normal" -> CAMERA_BANDWIDTH_Normal
      [] profile = "High" -> CAMERA_BANDWIDTH_High

CONF_CAMERA == "camera"
CONF_ALARM_CONTROL_PANEL == "alarm_control_panel"

\* -------------------------------------------------- what the module sends
\* Outcome of one awaited remote call:
\*   ok       the call returned a response
\*   conn     aiohttp ClientConnectionError
\*   timeout  asyncio TimeoutError
\*   auth     pypdxapi ParadoxModuleError
\*   notimpl  NotImplementedError
\*   other    any other exception type (KeyError, ValueError, ...)
Outcomes == {"ok", "conn", "timeout", "auth", "notimpl", "other"}
Failures == Outcomes \ {"ok"}

\* A login response: the module serial the transport client keeps, and the
\* 'ParadoxCP' section, which a response may lack.
LoginResponses ==
    [serial : Serials, cp : [present : {TRUE}, SerialNo : Serials]]
    \cup [serial : Serials, cp : {[present |-> FALSE, SerialNo |-> 0]}]

NoLogin == [serial |-> 0, cp |-> [present |-> FALSE, SerialNo |-> 0]]

\* pingstatus() payloads: the 'AreaStatus' list of partition records.
Area(id, level, alarm) == [AreaId |-> id, ArmingLevelID |-> level, InAlarm |-> alarm]
Snapshots ==
    { <<>>,
      <<Area(1, 0, FALSE)>>,
      <<Area(1, 1, TRUE), Area(2, 3, FALSE)>> }

\* No record: an entity that does not exist has none.
NoPartition == Area(0, 0, FALSE)

\* ArmingLevelID values a record may carry, and the one-partition payloads
\* over them.
ArmingLevels == {0, 1, 2, 3, 5}
PanelSnapshots ==
    {<<Area(1, level, alarm)>> : level \in ArmingLevels, alarm \in BOOLEAN} \cup {<<>>}

\* vod() payloads after m3u8.loads: the variant playlists in manifest order.
Variant(bw, uri) == [bandwidth |-> bw, uri |-> uri]
Manifests3 ==
    <<Variant(CAMERA_BANDWIDTH_Low, "low.m3u8"),
      Variant(CAMERA_BANDWIDTH_Normal, "norm.m3u8"),
      Variant(CAMERA_BANDWIDTH_High, "high.m3u8")>>
Manifests ==
    { Manifests3,
      <<Variant(CAMERA_BANDWIDTH_Normal, "norm2.m3u8"),
        Variant(CAMERA_BANDWIDTH_Normal, "norm.m3u8")>>,
      <<Variant(CAMERA_BANDWIDTH_Low, "low.m3u8"),
        Variant(CAMERA_BANDWIDTH_Low + CAMERA_BANDWIDTH_Normal, "mid.m3u8")>>,
      <<>> }

\* ----------------------------------------------------------------- state
VARIABLES
    entry,               \* progress / outcome of async_setup_entry for the config entry
    platforms,           \* ParadoxDevice.platforms (config entry data + options)
    available,           \* ParadoxDevice._available
    device_info,         \* ParadoxDevice._device_info
    panel_info,          \* ParadoxDevice._panel_info
    last_stream_source,  \* ParadoxDevice._last_stream_source ("None" or a URI)
    authenticated,       \* transport client: device.is_authenticated()
    client_serial,       \* transport client: device.serial (0 before any login)
    registered,          \* entry.unique_id in hass.data[DOMAIN]
    coordinator,         \* the ParadoxAlarmPanelUpdateCoordinator of the entry
    forwarded,           \* platforms handed to async_forward_entry_setup
    entities,            \* partition ids of the ParadoxAlarmEntity objects created
    partition,           \* ParadoxAlarmEntity._partition of each of these entities
    tasks,               \* bag of the in-flight entity operations on the device
    ev,                  \* history: what the last step did
    resolved_since_login \* history: cache filled by a resolution after the last re-login

vars == <<entry, platforms, available, device_info, panel_info,
          last_stream_source, authenticated, client_serial, registered,
          coordinator, forwarded, entities, partition, tasks, ev,
          resolved_since_login>>

\* models.py DeviceInfo (manufacturer, model, sw_version, mac carry no behaviour)
DeviceInfo(name, serial) == [name |-> name, serial |-> serial]
NoInfo == DeviceInfo("None", 0)

NoCoordinator == [exists |-> FALSE, polling |-> FALSE, has_data |-> FALSE,
                  data |-> <<>>]

\* ParadoxAlarmEntity._send_alarm_command after `await async_areacontrol(...)`:
\* when the call returned (True or False) the next statement requests a
\* coordinator refresh; an exception leaving the call skips it.
RequestsRefresh(op, ret) == op = "area" /\ ret \in {"True", "False"}

\* An in-flight operation: which one, the await it is suspended at, and the
\* locals it carries across the await.
Task(op, pc, arg) == [op |-> op, pc |-> pc, arg |-> arg]

\* ev.op     the operation that took the step
\* ev.step   "call" (ran from its start) or the await it resumed from
\* ev.out    outcome of the awaited call delivered in this step ("-" if none)
\* ev.issued remote call the step left in flight ("none" if it returned)
\* ev.ret    value the operation returned in this step ("pending" if it did not)
\* ev.data   the response or payload the step received or submitted
\* ev.refresh the step went on to coordinator.async_request_refresh()
Ev(op, step, out, issued, ret, payload) ==
    [op |-> op, step |-> step, out |-> out, issued |-> issued, ret |-> ret,
     data |-> payload, refresh |-> RequestsRefresh(op, ret)]

Init ==
    /\ entry = "none"
    /\ platforms \in {{CONF_CAMERA}, {CONF_CAMERA, CONF_ALARM_CONTROL_PANEL}}
    /\ available = FALSE
    /\ device_info = NoInfo
    /\ panel_info = NoInfo
    /\ last_stream_source = "None"
    /\ authenticated = FALSE
    /\ client_serial = 0
    /\ registered = FALSE
    /\ coordinator = NoCoordinator
    /\ forwarded = {}
    /\ entities = {}
    /\ partition = [p \in {} |-> NoPartition]
    /\ tasks = EmptyBag
    /\ ev = Ev("init", "call", "-", "none", "pending", <<>>)
    /\ resolved_since_login = FALSE

\* ------------------------------------------ faulty variants of async_setup
\* (each seeds one plausible fault; the properties below must tell them apart)
\* async_setup with the panel serial copied from the transport client instead
\* of the login response.
async_setup_panel_serial_from_client(o, resp) ==
    IF o = "ok" /\ resp.cp.present
    THEN [ret |-> "True", available |-> TRUE,
          device_info |-> DeviceInfo("module", resp.serial),
          panel_info |-> DeviceInfo("Paradox Control Panel", resp.serial)]
    ELSE [ret |-> IF o = "auth" THEN "False"
                  ELSE IF o \in {"ok", "other"} THEN "raised" ELSE "True",
          available |-> available,
          device_info |-> IF o = "ok" THEN DeviceInfo("module", resp.serial)
                          ELSE device_info,
          panel_info |-> panel_info]

\* async_setup whose ParadoxModuleError clause falls through to `return True`.
async_setup_auth_soft(o, resp) ==
    IF o = "ok" /\ resp.cp.present
    THEN [ret |-> "True", available |-> TRUE,
          device_info |-> DeviceInfo("module", resp.serial),
          panel_info |-> DeviceInfo("Paradox Control Panel", resp.cp.SerialNo)]
    ELSE [ret |-> IF o \in {"ok", "other"} THEN "raised" ELSE "True",
          available |-> available,
          device_info |-> IF o = "ok" THEN DeviceInfo("module", resp.serial)
                          ELSE device_info,
          panel_info |-> panel_info]

\* async_setup whose connection/timeout clause returns False.
async_setup_transient_hard(o, resp) ==
    IF o = "ok" /\ resp.cp.present
    THEN [ret |-> "True", available |-> TRUE,
          device_info |-> DeviceInfo("module", resp.serial),
          panel_info |-> DeviceInfo("Paradox Control Panel", resp.cp.SerialNo)]
    ELSE [ret |-> IF o \in {"auth", "conn", "timeout"} THEN "False"
                  ELSE IF o \in {"ok", "other"} THEN "raised" ELSE "True",
          available |-> available,
          device_info |-> IF o = "ok" THEN DeviceInfo("module", resp.serial)
                          ELSE device_info,
          panel_info |-> panel_info]

\* async_setup that sets _available right after the login, before it builds
\* the identities.
async_setup_available_first(o, resp) ==
    IF o = "ok"
    THEN [ret |-> IF resp.cp.present THEN "True" ELSE "raised", available |-> TRUE,
          device_info |-> DeviceInfo("module", resp.serial),
          panel_info |-> IF resp.cp.present
                         THEN DeviceInfo("Paradox Control Panel", resp.cp.SerialNo)
                         ELSE panel_info]
    ELSE [ret |-> IF o = "auth" THEN "False" ELSE IF o = "other" THEN "raised" ELSE "True",
          available |-> available,
          device_info |-> device_info, panel_info |-> panel_info]

\* ------------------------------------------------------ ParadoxDevice.async_setup
\* The try body after `await self.device.login(...)` returned or raised `o`,
\* and the except clauses; `resp` is the login response when o = "ok".
\* ret "raised" stands for an exception leaving async_setup.
async_setup(o, resp) ==
    CASE o = "ok" /\ resp.cp.present ->
            [ret |-> "True", available |-> TRUE,
             device_info |-> DeviceInfo("module", resp.serial),
             panel_info |-> DeviceInfo("Paradox Control Panel", resp.cp.SerialNo)]
      [] o = "ok" /\ ~resp.cp.present ->
            \* data['ParadoxCP'] raises KeyError after _device_info was assigned;
            \* no except clause names KeyError
            [ret |-> "raised", available |-> available,
             device_info |-> DeviceInfo("module", resp.serial),
             panel_info |-> panel_info]
      [] o \in {"conn", "timeout"} ->
            [ret |-> "True", available |-> available,
             device_info |-> device_info, panel_info |-> panel_info]
      [] o = "auth" ->
            [ret |-> "False", available |-> available,
             device_info |-> device_info, panel_info |-> panel_info]
      [] o = "notimpl" ->
            [ret |-> "True", available |-> available,
             device_info |-> device_info, panel_info |-> panel_info]
      [] o = "other" ->
            [ret |-> "raised", available |-> available,
             device_info |-> device_info, panel_info |-> panel_info]

\* async_update_alarm_panel that marks the device available on a good poll.
async_update_alarm_panel_marks_available(o) ==
    CASE o = "ok" -> [ret |-> "data", available |-> TRUE]
      [] o = "auth" -> [ret |-> "UpdateFailed", available |-> FALSE]
      [] o = "other" -> [ret |-> "raised", available |-> available]
      [] OTHER -> [ret |-> "UpdateFailed", available |-> available]

\* ------------------------------------------ ParadoxDevice.async_update_alarm_panel
\* The continuation of `await self.device.pingstatus()`.
async_update_alarm_panel(o) ==
    CASE o = "ok" -> [ret |-> "data", available |-> available]
      [] o \in {"conn", "timeout"} -> [ret |-> "UpdateFailed", available |-> available]
      [] o = "auth" -> [ret |-> "UpdateFailed", available |-> FALSE]
      [] o = "notimpl" -> [ret |-> "UpdateFailed", available |-> available]
      [] o = "other" -> [ret |-> "raised", available |-> available]

\* DataUpdateCoordinator.async_refresh around _async_update_data: a returned
\* payload becomes coordinator.data; UpdateFailed (and any other exception) is
\* logged by the coordinator and leaves the previous data in place.
CoordinatorAfter(c, ret, snap) ==
    IF ret = "data"
    THEN [c EXCEPT !.polling = FALSE, !.has_data = TRUE, !.data = snap]
    ELSE [c EXCEPT !.polling = FALSE]

\* alarm_control_panel.async_setup_entry: one entity per partition of
\* coordinator.data (coordinator.data is None after a failed first refresh, and
\* the platform setup then raises before it adds any entity).
AreaIds(snap) == {snap[i].AreaId : i \in 1..Len(snap)}

EntitiesFor(plats, c) ==
    IF CONF_ALARM_CONTROL_PANEL \in plats /\ c.has_data THEN AreaIds(c.data) ELSE {}

\* ParadoxAlarmEntity._get_partition_from_coordinator: the first record of the
\* coordinator data whose AreaId is the entity's; with no such record the loop
\* ends without an assignment and self._partition stays what it was.
RECURSIVE get_partition_from_coordinator(_, _, _)
get_partition_from_coordinator(data, partition_id, old) ==
    IF data = <<>> THEN old
    ELSE IF Head(data).AreaId = partition_id THEN Head(data)
    ELSE get_partition_from_coordinator(Tail(data), partition_id, old)

\* ParadoxAlarmEntity.__init__ of the entities the platform setup creates.
PartitionsFor(ids, c) ==
    [p \in ids |-> get_partition_from_coordinator(c.data, p, NoPartition)]

\* ParadoxAlarmEntity.state that looks at the arming level before InAlarm.
ParadoxAlarmEntity_state_level_first(record) ==
    IF record.ArmingLevelID = 0 THEN "disarmed"
    ELSE IF record.ArmingLevelID = 1 THEN "armed_away"
    ELSE IF record.ArmingLevelID = 3 THEN "armed_home"
    ELSE IF record.ArmingLevelID = 5 THEN "arming"
    ELSE IF record.InAlarm THEN "triggered"
    ELSE "unknown"

\* ParadoxAlarmEntity.state, after _get_partition_from_coordinator()
ParadoxAlarmEntity_state(record) ==
    IF record.InAlarm THEN "triggered"
    ELSE IF record.ArmingLevelID = 0 THEN "disarmed"
    ELSE IF record.ArmingLevelID = 1 THEN "armed_away"
    ELSE IF record.ArmingLevelID = 3 THEN "armed_home"
    ELSE IF record.ArmingLevelID = 5 THEN "arming"
    ELSE "unknown"

\* async_setup_entry without `if not module.available: raise ConfigEntryNotReady()`.
SetupEntryOutcome_no_ready_check(ret, avail) ==
    IF ret = "raised" THEN "error"
    ELSE IF ret = "False" THEN "failed"
    ELSE "proceed"

\* ------------------------------------------------------------ async_setup_entry
\* The decision async_setup_entry takes on what module.async_setup() returned.
SetupEntryOutcome(ret, avail) ==
    IF ret = "raised" THEN "error"
    ELSE IF ret = "False" THEN "failed"
    ELSE IF ~avail THEN "not_ready"
    ELSE "proceed"

\* async_setup_entry up to `await self.device.login(...)` inside async_setup:
\* a new ParadoxDevice (class defaults) and a new transport client.  The host
\* calls it for a new entry, again after ConfigEntryNotReady, and on a reload.
SetupEntry ==
    /\ entry \in {"none", "not_ready", "failed", "error", "unloaded"}
    /\ entry' = "setup_login"
    /\ available' = FALSE
    /\ device_info' = NoInfo
    /\ panel_info' = NoInfo
    /\ last_stream_source' = "None"
    /\ authenticated' = FALSE
    /\ client_serial' = 0
    /\ resolved_since_login' = FALSE
    /\ ev' = Ev("setup", "call", "-", "login", "pending", <<>>)
    /\ UNCHANGED <<platforms, registered, coordinator, forwarded, entities, partition, tasks>>

\* The login of async_setup completes with outcome o: the rest of async_setup,
\* then async_setup_entry up to `await coordinator.async_refresh()` or its return.
SetupResume(o, resp) ==
    /\ entry = "setup_login"
    /\ LET r == async_setup(o, resp)
           out == SetupEntryOutcome(r.ret, r.available)
           alarm == CONF_ALARM_CONTROL_PANEL \in platforms
       IN  /\ available' = r.available
           /\ device_info' = r.device_info
           /\ panel_info' = r.panel_info
           /\ authenticated' = (o = "ok")
           /\ client_serial' = IF o = "ok" THEN resp.serial ELSE client_serial
           /\ IF out = "proceed"
              THEN /\ registered' = TRUE
                   /\ IF alarm
                      THEN /\ coordinator' = [NoCoordinator EXCEPT !.exists = TRUE,
                                                                  !.polling = TRUE]
                           /\ entry' = "first_refresh"
                           /\ forwarded' = forwarded
                           /\ ev' = Ev("setup", "login", o, "pingstatus", r.ret, <<resp>>)
                      ELSE /\ coordinator' = coordinator
                           /\ entry' = "loaded"
                           /\ forwarded' = platforms
                           /\ ev' = Ev("setup", "login", o, "none", r.ret, <<resp>>)
              ELSE /\ entry' = out
                   /\ ev' = Ev("setup", "login", o, "none", r.ret, <<resp>>)
                   /\ UNCHANGED <<registered, coordinator, forwarded>>
    /\ UNCHANGED <<platforms, last_stream_source, entities, partition, tasks,
                   resolved_since_login>>

\* The first coordinator.async_refresh() of async_setup_entry completes: the
\* coordinator is stored and every platform is forwarded.
FirstRefreshResume(o, snap) ==
    /\ entry = "first_refresh"
    /\ LET r == async_update_alarm_panel(o)
           c == CoordinatorAfter(coordinator, r.ret, snap)
       IN  /\ available' = r.available
           /\ coordinator' = c
           /\ forwarded' = platforms
           /\ entities' = EntitiesFor(platforms, c)
           /\ partition' = PartitionsFor(EntitiesFor(platforms, c), c)
           /\ ev' = Ev("poll", "pingstatus", o, "none", r.ret, <<>>)
    /\ entry' = "loaded"
    /\ UNCHANGED <<platforms, device_info, panel_info, last_stream_source,
                   authenticated, client_serial, registered, tasks,
                   resolved_since_login>>

\* async_update_alarm_panel with the session check of the other operations:
\* on a stale session it awaits a login before the status fetch.
PollTick_checks_session ==
    /\ entry = "loaded"
    /\ coordinator.exists
    /\ ~coordinator.polling
    /\ coordinator' = [coordinator EXCEPT !.polling = TRUE]
    /\ ev' = Ev("poll", "call", "-", IF authenticated THEN "pingstatus" ELSE "login",
                "pending", <<>>)
    /\ UNCHANGED <<entry, platforms, available, device_info, panel_info,
                   last_stream_source, authenticated, client_serial, registered,
                   forwarded, entities, partition, tasks, resolved_since_login>>

\* ------------------------------------------------------------- status polling
\* A refresh of the coordinator starts while none is in flight:
\* _async_update_data -> async_update_alarm_panel, up to `await pingstatus()`.
\* When a refresh starts is decided by the host's DataUpdateCoordinator, which
\* is no part of this integration; the model starts one only while none is in
\* flight.
PollTick ==
    /\ entry = "loaded"
    /\ coordinator.exists
    /\ ~coordinator.polling
    /\ coordinator' = [coordinator EXCEPT !.polling = TRUE]
    /\ ev' = Ev("poll", "call", "-", "pingstatus", "pending", <<>>)
    /\ UNCHANGED <<entry, platforms, available, device_info, panel_info,
                   last_stream_source, authenticated, client_serial, registered,
                   forwarded, entities, partition, tasks, resolved_since_login>>

PollResume(o, snap) ==
    /\ entry = "loaded"
    /\ coordinator.exists
    /\ coordinator.polling
    /\ LET r == async_update_alarm_panel(o)
       IN  /\ available' = r.available
           /\ coordinator' = CoordinatorAfter(coordinator, r.ret, snap)
           /\ ev' = Ev("poll", "pingstatus", o, "none", r.ret, <<>>)
    /\ UNCHANGED <<entry, platforms, device_info, panel_info,
                   last_stream_source, authenticated, client_serial, registered,
                   forwarded, entities, partition, tasks, resolved_since_login>>

\* The module ends the session (expiry); is_authenticated() turns false.
SessionExpire ==
    /\ entry \in {"first_refresh", "loaded"}
    /\ authenticated
    /\ authenticated' = FALSE
    /\ ev' = Ev("expire", "call", "-", "none", "pending", <<>>)
    /\ UNCHANGED <<entry, platforms, available, device_info, panel_info,
                   last_stream_source, client_serial, registered, coordinator,
                   forwarded, entities, partition, tasks, resolved_since_login>>

\* -------------------------------------------------------------- entity tasks
One(k) == SetToBag({k})
InFlight == BagToSet(tasks)
CanStart(limit) == BagCardinality(tasks) < limit
Start(k) == tasks (+) One(k)
Finish(k) == tasks (-) One(k)
Move(k, pc) == (tasks (-) One(k)) (+) One([k EXCEPT !.pc = pc])
Suspended(op, pc) == {k \in BagToSet(tasks) : k.op = op /\ k.pc = pc}

CameraLoaded == entry = "loaded" /\ CONF_CAMERA \in forwarded
AlarmLoaded == entry = "loaded" /\ CONF_ALARM_CONTROL_PANEL \in forwarded

\* ------------------------------------------- ParadoxDevice.async_stream_source
\* options.get(CONF_CAMERA_PROFILE, DEFAULT_CAMERA_PROFILE); opt is the option
\* as the options flow last stored it ("unset": never configured).  The entry's
\* options are read at each resolution.
ChannelType(opt) == IF opt = "unset" THEN DEFAULT_CAMERA_PROFILE ELSE opt

ProfileOptions == CAMERA_PROFILES \cup {"unset"}

\* The playlist loop without its `break`: the last equal bandwidth wins.
RECURSIVE SelectVariant_last_match(_, _)
SelectVariant_last_match(playlists, bandwidth) ==
    IF playlists = <<>> THEN "None"
    ELSE IF playlists[Len(playlists)].bandwidth = bandwidth
         THEN playlists[Len(playlists)].uri
    ELSE SelectVariant_last_match(SubSeq(playlists, 1, Len(playlists) - 1), bandwidth)

\* for playlist in variant_m3u8.playlists: first one whose bandwidth is equal
RECURSIVE SelectVariant(_, _)
SelectVariant(playlists, bandwidth) ==
    IF playlists = <<>> THEN "None"
    ELSE IF Head(playlists).bandwidth = bandwidth THEN Head(playlists).uri
    ELSE SelectVariant(Tail(playlists), bandwidth)

\* async_stream_source whose connection/timeout clause also clears _available.
stream_source_except_transient_unavailable(o) ==
    CASE o \in {"conn", "timeout"} ->
            [ret |-> "", cache |-> "None", available |-> FALSE]
      [] o = "auth" ->
            [ret |-> "", cache |-> last_stream_source, available |-> FALSE]
      [] o = "notimpl" ->
            [ret |-> "", cache |-> last_stream_source, available |-> available]
      [] o = "other" ->
            [ret |-> "raised", cache |-> last_stream_source, available |-> available]

\* The except clauses and the final `return ''` of async_stream_source.
stream_source_except(o) ==
    CASE o \in {"conn", "timeout"} ->
            [ret |-> "", cache |-> "None", available |-> available]
      [] o = "auth" ->
            [ret |-> "", cache |-> last_stream_source, available |-> FALSE]
      [] o = "notimpl" ->
            [ret |-> "", cache |-> last_stream_source, available |-> available]
      [] o = "other" ->
            [ret |-> "raised", cache |-> last_stream_source, available |-> available]

\* async_stream_source without `if self._last_stream_source is None`: every
\* call on an authenticated session fetches the manifest.
StreamCall_always_fetches(opt) ==
    /\ entry = "loaded" /\ CONF_CAMERA \in forwarded
    /\ IF ~authenticated
       THEN /\ last_stream_source' = "None"
            /\ tasks' = tasks (+) SetToBag({Task("stream", "login", <<>>)})
            /\ ev' = Ev("stream", "call", "-", "login", "pending", <<>>)
       ELSE /\ tasks' = tasks (+) SetToBag({Task("stream", "vod",
                            <<IF opt = "unset" THEN DEFAULT_CAMERA_PROFILE ELSE opt>>)})
            /\ ev' = Ev("stream", "call", "-", "vod", "pending", <<>>)
            /\ UNCHANGED last_stream_source
    /\ UNCHANGED <<entry, platforms, available, device_info, panel_info,
                   authenticated, client_serial, registered, coordinator,
                   forwarded, entities, partition, resolved_since_login>>

\* From the call to the first await, or to the return on a cache hit.
StreamCall(opt) ==
    /\ CameraLoaded
    /\ IF ~authenticated
       THEN /\ last_stream_source' = "None"
            /\ tasks' = Start(Task("stream", "login", <<>>))
            /\ ev' = Ev("stream", "call", "-", "login", "pending", <<>>)
       ELSE IF last_stream_source = "None"
       THEN /\ tasks' = Start(Task("stream", "vod", <<ChannelType(opt)>>))
            /\ ev' = Ev("stream", "call", "-", "vod", "pending", <<>>)
            /\ UNCHANGED last_stream_source
       ELSE /\ ev' = Ev("stream", "call", "-", "none", last_stream_source, <<>>)
            /\ UNCHANGED <<last_stream_source, tasks>>
    /\ UNCHANGED <<entry, platforms, available, device_info, panel_info,
                   authenticated, client_serial, registered, coordinator,
                   forwarded, entities, partition, resolved_since_login>>

\* The re-login of async_stream_source completes (the same module answers, so
\* the transport client keeps its serial).
StreamResumeLogin(k, o, opt) ==
    /\ k \in Suspended("stream", "login")
    /\ IF o = "ok"
       THEN /\ authenticated' = TRUE
            /\ resolved_since_login' = FALSE
            /\ IF last_stream_source = "None"
               THEN /\ tasks' = Finish(k) (+) One(Task("stream", "vod", <<ChannelType(opt)>>))
                    /\ ev' = Ev("stream", "login", o, "vod", "pending", <<>>)
               ELSE /\ tasks' = Finish(k)
                    /\ ev' = Ev("stream", "login", o, "none", last_stream_source, <<>>)
            /\ UNCHANGED <<last_stream_source, available>>
       ELSE LET x == stream_source_except(o)
            IN  /\ last_stream_source' = x.cache
                /\ available' = x.available
                /\ tasks' = Finish(k)
                /\ ev' = Ev("stream", "login", o, "none", x.ret, <<>>)
                /\ UNCHANGED <<authenticated, resolved_since_login>>
    /\ UNCHANGED <<entry, platforms, device_info, panel_info, client_serial,
                   registered, coordinator, forwarded, entities, partition>>

\* vod() completes; m3u8.loads parses the manifest (parsed = FALSE: it raises,
\* an exception none of the except clauses names).
StreamResumeVod(k, o, manifest, parsed) ==
    /\ k \in Suspended("stream", "vod")
    /\ tasks' = Finish(k)
    /\ IF o = "ok" /\ parsed
       THEN LET uri == SelectVariant(manifest, CAMERA_BANDWIDTH(k.arg[1]))
                cache == IF uri # "None" THEN uri ELSE last_stream_source
            IN  /\ last_stream_source' = cache
                /\ resolved_since_login' = IF uri # "None" THEN TRUE
                                           ELSE resolved_since_login
                /\ ev' = Ev("stream", "vod", o, "none", cache, <<>>)
                /\ UNCHANGED available
       ELSE LET x == stream_source_except(IF o = "ok" THEN "other" ELSE o)
            IN  /\ last_stream_source' = x.cache
                /\ available' = x.available
                /\ ev' = Ev("stream", "vod", o, "none", x.ret, <<>>)
                /\ UNCHANGED resolved_since_login
    /\ UNCHANGED <<entry, platforms, device_info, panel_info,
                   authenticated, client_serial, registered, coordinator,
                   forwarded, entities, partition>>

\* --------------------------------------------- ParadoxDevice.async_areacontrol
\* async_areacontrol whose ParadoxModuleError clause does not clear _available.
areacontrol_except_keeps_available(o) ==
    [ret |-> IF o = "other" THEN "raised" ELSE "False", available |-> available]

\* The except clauses and the final `return False` of async_areacontrol.
areacontrol_except(o) ==
    CASE o \in {"conn", "timeout"} -> [ret |-> "False", available |-> available]
      [] o = "auth" -> [ret |-> "False", available |-> FALSE]
      [] o = "notimpl" -> [ret |-> "False", available |-> available]
      [] o = "other" -> [ret |-> "raised", available |-> available]

\* async_areacontrol without the is_authenticated() check: it submits at once.
AreaCall_no_session_check(partition_id, command) ==
    /\ entry = "loaded" /\ CONF_ALARM_CONTROL_PANEL \in forwarded
    /\ partition_id \in entities
    /\ tasks' = tasks (+) SetToBag({Task("area", "areacontrol",
                    <<[AreaID |-> partition_id, AreaCommand |-> command,
                       ForceZones |-> FALSE]>>)})
    /\ ev' = Ev("area", "call", "-", "areacontrol", "pending", <<>>)
    /\ UNCHANGED <<entry, platforms, available, device_info, panel_info,
                   last_stream_source, authenticated, client_serial, registered,
                   coordinator, forwarded, entities, partition, resolved_since_login>>

\* _send_alarm_command that asks the panel to force the open zones.
AreaCommand_force_zones(partition_id, command) ==
    <<[AreaID |-> partition_id, AreaCommand |-> command, ForceZones |-> TRUE]>>

\* ParadoxAlarmEntity._send_alarm_command builds the payload and calls
\* async_areacontrol([area_command]), which runs to its first await.
AreaCommand(partition_id, command) ==
    <<[AreaID |-> partition_id, AreaCommand |-> command, ForceZones |-> FALSE]>>

AreaCall(partition_id, command) ==
    /\ AlarmLoaded
    /\ partition_id \in entities
    /\ LET area_commands == AreaCommand(partition_id, command)
       IN  IF ~authenticated
           THEN /\ tasks' = Start(Task("area", "login", area_commands))
                /\ ev' = Ev("area", "call", "-", "login", "pending", <<>>)
           ELSE /\ tasks' = Start(Task("area", "areacontrol", area_commands))
                /\ ev' = Ev("area", "call", "-", "areacontrol", "pending", area_commands)
    /\ UNCHANGED <<entry, platforms, available, device_info, panel_info,
                   last_stream_source, authenticated, client_serial, registered,
                   coordinator, forwarded, entities, partition, resolved_since_login>>

\* async_areacontrol that rebuilds _device_info from the client after its
\* re-login.
AreaResumeLogin_rebuilds_identity(k, o) ==
    /\ k \in BagToSet(tasks) /\ k.op = "area" /\ k.pc = "login"
    /\ IF o = "ok"
       THEN /\ authenticated' = TRUE
            /\ resolved_since_login' = FALSE
            /\ device_info' = DeviceInfo("module", 0)
            /\ tasks' = (tasks (-) SetToBag({k}))
                            (+) SetToBag({Task("area", "areacontrol", k.arg)})
            /\ ev' = Ev("area", "login", o, "areacontrol", "pending", k.arg)
            /\ UNCHANGED available
       ELSE /\ available' = (available /\ o # "auth")
            /\ tasks' = tasks (-) SetToBag({k})
            /\ ev' = Ev("area", "login", o, "none",
                        IF o = "other" THEN "raised" ELSE "False", <<>>)
            /\ UNCHANGED <<authenticated, resolved_since_login, device_info>>
    /\ UNCHANGED <<entry, platforms, panel_info, last_stream_source,
                   client_serial, registered, coordinator, forwarded, entities,
                   partition>>

\* The alarm services of the entity of partition_id.
async_alarm_disarm(partition_id) == AreaCall(partition_id, CMD_DISARM)
async_alarm_arm_home(partition_id) == AreaCall(partition_id, CMD_ARM_HOME)
async_alarm_arm_away(partition_id) == AreaCall(partition_id, CMD_ARM_AWAY)

AreaResumeLogin(k, o) ==
    /\ k \in Suspended("area", "login")
    /\ IF o = "ok"
       THEN /\ authenticated' = TRUE
            /\ resolved_since_login' = FALSE
            /\ tasks' = Move(k, "areacontrol")
            /\ ev' = Ev("area", "login", o, "areacontrol", "pending", k.arg)
            /\ UNCHANGED available
       ELSE LET x == areacontrol_except(o)
            IN  /\ available' = x.available
                /\ tasks' = Finish(k)
                /\ ev' = Ev("area", "login", o, "none", x.ret, <<>>)
                /\ UNCHANGED <<authenticated, resolved_since_login>>
    /\ UNCHANGED <<entry, platforms, device_info, panel_info, last_stream_source,
                   client_serial, registered, coordinator, forwarded, entities, partition>>

AreaResumeControl(k, o) ==
    /\ k \in Suspended("area", "areacontrol")
    /\ tasks' = Finish(k)
    /\ IF o = "ok"
       THEN /\ ev' = Ev("area", "areacontrol", o, "none", "True", <<>>)
            /\ UNCHANGED available
       ELSE LET x == areacontrol_except(o)
            IN  /\ available' = x.available
                /\ ev' = Ev("area", "areacontrol", o, "none", x.ret, <<>>)
    /\ UNCHANGED <<entry, platforms, device_info, panel_info,
                   last_stream_source, authenticated, client_serial, registered,
                   coordinator, forwarded, entities, partition, resolved_since_login>>

\* async_rod whose ParadoxModuleError clause does not clear _available.
rod_except_keeps_available(o) ==
    [ret |-> IF o = "other" THEN "raised" ELSE "False", available |-> available]

\* ---------------------------------------------------- ParadoxDevice.async_rod
\* The except clauses and the final `return False` of async_rod.
rod_except(o) ==
    CASE o \in {"conn", "timeout"} -> [ret |-> "False", available |-> available]
      [] o = "auth" -> [ret |-> "False", available |-> FALSE]
      [] o = "notimpl" -> [ret |-> "False", available |-> available]
      [] o = "other" -> [ret |-> "raised", available |-> available]

\* ResultCode values a rod() response may carry.
ResultCodes == {ROD_SUCCESS, ROD_SUCCESS + 1, 0}

\* async_enable_recording / async_disable_recording -> async_rod(state)
RodCall(state) ==
    /\ CameraLoaded
    /\ IF ~authenticated
       THEN /\ tasks' = Start(Task("rod", "login", <<state>>))
            /\ ev' = Ev("rod", "call", "-", "login", "pending", <<>>)
       ELSE /\ tasks' = Start(Task("rod", "rod", <<state>>))
            /\ ev' = Ev("rod", "call", "-", "rod", "pending", <<state>>)
    /\ UNCHANGED <<entry, platforms, available, device_info, panel_info,
                   last_stream_source, authenticated, client_serial, registered,
                   coordinator, forwarded, entities, partition, resolved_since_login>>

\* The recording services of the camera entity.
async_enable_recording == RodCall(ROD_START)
async_disable_recording == RodCall(ROD_STOP)

RodResumeLogin(k, o) ==
    /\ k \in Suspended("rod", "login")
    /\ IF o = "ok"
       THEN /\ authenticated' = TRUE
            /\ resolved_since_login' = FALSE
            /\ tasks' = Move(k, "rod")
            /\ ev' = Ev("rod", "login", o, "rod", "pending", k.arg)
            /\ UNCHANGED available
       ELSE LET x == rod_except(o)
            IN  /\ available' = x.available
                /\ tasks' = Finish(k)
                /\ ev' = Ev("rod", "login", o, "none", x.ret, <<>>)
                /\ UNCHANGED <<authenticated, resolved_since_login>>
    /\ UNCHANGED <<entry, platforms, device_info, panel_info, last_stream_source,
                   client_serial, registered, coordinator, forwarded, entities, partition>>

RodResumeRod(k, o, code) ==
    /\ k \in Suspended("rod", "rod")
    /\ tasks' = Finish(k)
    /\ IF o = "ok"
       THEN /\ ev' = Ev("rod", "rod", o, "none",
                        IF code = ROD_SUCCESS THEN "True" ELSE "False", <<code>>)
            /\ UNCHANGED available
       ELSE LET x == rod_except(o)
            IN  /\ available' = x.available
                /\ ev' = Ev("rod", "rod", o, "none", x.ret, <<>>)
    /\ UNCHANGED <<entry, platforms, device_info, panel_info,
                   last_stream_source, authenticated, client_serial, registered,
                   coordinator, forwarded, entities, partition, resolved_since_login>>

\* ------------------------------------------------- ParadoxAlarmEntity.state
\* The host reads the state property of the entity of partition_id: the
\* record is looked up again in the coordinator data, then mapped to a state.
StateRead(partition_id) ==
    /\ AlarmLoaded
    /\ partition_id \in entities
    /\ LET record == get_partition_from_coordinator(coordinator.data, partition_id,
                                                    partition[partition_id])
       IN  /\ partition' = [partition EXCEPT ![partition_id] = record]
           /\ ev' = Ev("state", "call", "-", "none",
                       ParadoxAlarmEntity_state(record), <<record>>)
    /\ UNCHANGED <<entry, platforms, available, device_info, panel_info,
                   last_stream_source, authenticated, client_serial, registered,
                   coordinator, forwarded, entities, tasks, resolved_since_login>>

\* async_unload_entry that pops the device whatever the platforms answered.
UnloadEntry_always_pops(unloaded) ==
    /\ entry = "loaded"
    /\ tasks = EmptyBag
    /\ ~coordinator.polling
    /\ unloaded \subseteq platforms
    /\ forwarded' = forwarded \ unloaded
    /\ entities' = IF CONF_ALARM_CONTROL_PANEL \in unloaded THEN {} ELSE entities
    /\ partition' = IF CONF_ALARM_CONTROL_PANEL \in unloaded
                    THEN [p \in {} |-> NoPartition] ELSE partition
    /\ registered' = FALSE
    /\ coordinator' = NoCoordinator
    /\ entry' = "unloaded"
    /\ ev' = Ev("unload", "call", "-", "none",
                IF unloaded = platforms THEN "True" ELSE "False", <<>>)
    /\ UNCHANGED <<platforms, available, device_info, panel_info,
                   last_stream_source, authenticated, client_serial, tasks,
                   resolved_since_login>>

\* ----------------------------------------------------------- async_unload_entry
\* unloaded: the platforms whose async_forward_entry_unload returned True.  The
\* host unloads an entry once its entity operations have returned.
UnloadEntry(unloaded) ==
    /\ entry = "loaded"
    /\ tasks = EmptyBag
    /\ ~coordinator.polling
    /\ unloaded \subseteq platforms
    /\ LET unload_ok == (unloaded = platforms)
       IN  /\ forwarded' = forwarded \ unloaded
           /\ entities' = IF CONF_ALARM_CONTROL_PANEL \in unloaded THEN {} ELSE entities
           /\ partition' = IF CONF_ALARM_CONTROL_PANEL \in unloaded
                           THEN [p \in {} |-> NoPartition] ELSE partition
           /\ IF unload_ok
              THEN /\ registered' = FALSE
                   /\ coordinator' = NoCoordinator
                   /\ entry' = "unloaded"
              ELSE UNCHANGED <<registered, coordinator, entry>>
           /\ ev' = Ev("unload", "call", "-", "none",
                       IF unload_ok THEN "True" ELSE "False", <<>>)
    /\ UNCHANGED <<platforms, available, device_info, panel_info,
                   last_stream_source, authenticated, client_serial, tasks,
                   resolved_since_login>>

\* ---------------------------------------------------------------------- Next
\* Full request and payload ranges (Snapshots, Manifests, ProfileOptions,
\* Commands, RodStates, ResultCodes); a workload picks from them.
Commands == {CMD_DISARM, CMD_ARM_AWAY, CMD_ARM_HOME}
RodStates == {ROD_START, ROD_STOP}
AllPlatforms == {CONF_CAMERA, CONF_ALARM_CONTROL_PANEL}

\* What the environment may feed the program: the payloads the module answers
\* with, the requests the host makes, and how many operations it keeps in flight.
Workload(limit, logins, snaps, manifests, opts, commands, states, codes, unloads) ==
    [limit |-> limit, logins |-> logins, snaps |-> snaps, manifests |-> manifests,
     opts |-> opts, commands |-> commands, states |-> states, codes |-> codes,
     unloads |-> unloads]

NextOver(w) ==
    \/ SetupEntry
    \/ \E resp \in w.logins : SetupResume("ok", resp)
    \/ \E o \in Failures : SetupResume(o, NoLogin)
    \/ \E snap \in w.snaps : FirstRefreshResume("ok", snap)
    \/ \E o \in Failures : FirstRefreshResume(o, <<>>)
    \/ PollTick
    \/ \E snap \in w.snaps : PollResume("ok", snap)
    \/ \E o \in Failures : PollResume(o, <<>>)
    \/ SessionExpire
    \/ \E opt \in w.opts : CanStart(w.limit) /\ StreamCall(opt)
    \/ \E k \in InFlight, o \in Outcomes, opt \in w.opts : StreamResumeLogin(k, o, opt)
    \/ \E k \in InFlight, manifest \in w.manifests : StreamResumeVod(k, "ok", manifest, TRUE)
    \/ \E k \in InFlight : StreamResumeVod(k, "ok", <<>>, FALSE)
    \/ \E k \in InFlight, o \in Failures : StreamResumeVod(k, o, <<>>, TRUE)
    \/ \E p \in entities, c \in w.commands : CanStart(w.limit) /\ AreaCall(p, c)
    \/ \E k \in InFlight, o \in Outcomes : AreaResumeLogin(k, o)
    \/ \E k \in InFlight, o \in Outcomes : AreaResumeControl(k, o)
    \/ \E state \in w.states : CanStart(w.limit) /\ RodCall(state)
    \/ \E k \in InFlight, o \in Outcomes : RodResumeLogin(k, o)
    \/ \E k \in InFlight, code \in w.codes : RodResumeRod(k, "ok", code)
    \/ \E k \in InFlight, o \in Failures : RodResumeRod(k, o, 0)
    \/ \E p \in entities : StateRead(p)
    \/ \E unloaded \in w.unloads : UnloadEntry(unloaded)

\* Interleaved operations on one representative of each payload.
Interleaved ==
    Workload(MaxTasks,
             {r \in LoginResponses : r.serial = 1 /\ r.cp.SerialNo \in {0, MaxSerial}},
             {<<>>, <<Area(1, 0, FALSE)>>},
             {Manifests3, <<>>},
             {"unset", "High"},
             {CMD_DISARM}, {ROD_START}, {ROD_SUCCESS, 0},
             {{}, AllPlatforms, {CONF_CAMERA}})

Next == NextOver(Interleaved)

Spec == Init /\ [][Next]_vars

\* Every identity a login may report, the operations one at a time.
Identities ==
    Workload(MaxTasksData, LoginResponses,
             {<<>>, <<Area(1, 0, FALSE)>>},
             {Manifests3},
             {"unset"},
             {CMD_DISARM}, {ROD_START}, {ROD_SUCCESS},
             {AllPlatforms, {CONF_CAMERA}})

NextIdentity == NextOver(Identities)

SpecIdentity == Init /\ [][NextIdentity]_vars

\* Every manifest and every channel option, the operations one at a time.
Streams ==
    Workload(MaxTasksData,
             {r \in LoginResponses : r.serial = 1 /\ r.cp.SerialNo = 1},
             {<<>>, <<Area(1, 0, FALSE)>>},
             Manifests,
             ProfileOptions,
             {CMD_DISARM}, {ROD_START}, {ROD_SUCCESS},
             {AllPlatforms, {CONF_CAMERA}})

NextStream == NextOver(Streams)

SpecStream == Init /\ [][NextStream]_vars

\* Every partition, alarm service, recording service and result code, the
\* operations one at a time.
Services ==
    Workload(MaxTasksData,
             {r \in LoginResponses : r.serial = 1 /\ r.cp.SerialNo = 1},
             Snapshots,
             {<<>>},
             {"unset"},
             Commands, RodStates, ResultCodes,
             {AllPlatforms})

NextService == NextOver(Services)

SpecService == Init /\ [][NextService]_vars

\* Every arming level with and without alarm, the operations one at a time.
Panels ==
    Workload(MaxTasksData,
             {r \in LoginResponses : r.serial = 1 /\ r.cp.SerialNo = 1},
             PanelSnapshots,
             {<<>>},
             {"unset"},
             {CMD_DISARM}, {ROD_START}, {0},
             {AllPlatforms})

NextPanel == NextOver(Panels)

SpecPanel == Init /\ [][NextPanel]_vars

\* ======================================================================
\* Properties
\* ======================================================================
\* The step just taken completed the login of async_setup: async_setup returned
\* (or raised) and async_setup_entry acted on the result.
SetupReturned == ev.op = "setup" /\ ev.step = "login"
Transient == {"conn", "timeout"}
EntityOps == {"stream", "area", "rod"}
PostSetupOps == EntityOps \cup {"poll"}
RemoteCalls == {"pingstatus", "areacontrol", "rod", "vod"}

\* C1: when the login of async_setup succeeds (with a response that carries the
\* control-panel section), async_setup returns True, available is true, and
\* device_info / panel_info are populated with the module serial the transport
\* client holds from that login and the panel serial of that login response.
C1_SetupSuccess ==
    (SetupReturned /\ ev.out = "ok" /\ ev.data[1].cp.present) =>
        /\ ev.ret = "True"
        /\ available
        /\ device_info # NoInfo /\ panel_info # NoInfo
        /\ client_serial = ev.data[1].serial
        /\ device_info.serial = client_serial
        /\ panel_info.serial = ev.data[1].cp.SerialNo

C1_Witness ==
    /\ SetupReturned /\ ev.out = "ok" /\ available
    /\ device_info.serial = MaxSerial /\ panel_info.serial = 1

\* C2: when the login of async_setup raises ParadoxModuleError, async_setup
\* returns False with available false, and async_setup_entry returns False:
\* nothing is registered, no coordinator exists, no platform is forwarded.
C2_AuthHardFailure ==
    (SetupReturned /\ ev.out = "auth") =>
        /\ ev.ret = "False"
        /\ ~available
        /\ entry = "failed"
        /\ ~registered /\ ~coordinator.exists /\ forwarded = {} /\ entities = {}

C2_Witness == SetupReturned /\ ev.out = "auth" /\ entry = "failed"

\* C3: when the login of async_setup fails with a connection or timeout error,
\* async_setup returns True with available false and async_setup_entry raises
\* ConfigEntryNotReady instead of returning False.
C3_TransientNotReady ==
    (SetupReturned /\ ev.out \in Transient) =>
        /\ ev.ret = "True"
        /\ ~available
        /\ entry = "not_ready"

C3_Witness == SetupReturned /\ ev.out = "timeout" /\ entry = "not_ready"

\* C4 as claimed: after a setup-time connection/timeout failure the device is
\* registered and its platforms are set up, the device being unavailable.
C4_SoftFailureStillCreatesEntities ==
    (SetupReturned /\ ev.out \in Transient) =>
        /\ registered
        /\ entry \in {"first_refresh", "loaded"}
        /\ ~available

\* C4 amended: after a setup-time connection/timeout failure nothing is
\* created: the device is not registered, no coordinator exists and no platform
\* is forwarded; the device is unavailable and setup is left to be retried.
C4_SoftFailureCreatesNothing ==
    (SetupReturned /\ ev.out \in Transient) =>
        /\ ~registered /\ ~coordinator.exists /\ forwarded = {} /\ entities = {}
        /\ ~available

C4_Witness == SetupReturned /\ ev.out = "conn" /\ ~registered /\ ~available

\* C5: every failure of async_setup that is neither connection/timeout nor
\* authorization (any other exception, a login response without the
\* control-panel section) ends as a soft failure: async_setup returns True with
\* available false, and no exception leaves it.
C5_UnclassifiedIsSoftFailure ==
    (SetupReturned /\ (ev.out \in {"notimpl", "other"}
                       \/ (ev.out = "ok" /\ ~ev.data[1].cp.present))) =>
        /\ ev.ret = "True"
        /\ ~available

\* C6: whenever the re-login or the remote call of a status poll, area command,
\* recording command or stream resolution raises ParadoxModuleError, the
\* operation returns in that step and available is false.
C6_AuthClearsAvailable ==
    (ev.op \in PostSetupOps /\ ev.out = "auth") =>
        /\ ev.ret # "pending"
        /\ ~available

C6_Witness == ev.op = "rod" /\ ev.step = "login" /\ ev.out = "auth" /\ ~available

\* C7: a successful re-login by the stream resolver, the area command or the
\* recording command leaves available true (restoring it after an
\* authorization failure cleared it).
C7_ReloginRestoresAvailable ==
    (ev.op \in EntityOps /\ ev.step = "login" /\ ev.out = "ok") => available

\* C8: available turns from false to true only in a step in which a login has
\* just succeeded.
C8_AvailableOnlyByLogin ==
    [][(~available /\ available') => (ev'.step = "login" /\ ev'.out = "ok")]_vars

C8_Witness == SetupReturned /\ ev.out = "ok" /\ available

\* C9 as claimed: while available is false, a remote call (status fetch, area
\* command, recording command, manifest fetch) is issued only right after a
\* login attempt of the same operation.
C9_LoginBeforeCallWhenUnavailable ==
    (~available /\ ev.issued \in RemoteCalls) => ev.step = "login"

\* C9 amended: an area command, recording command or stream resolution that
\* finds the session unauthenticated attempts a login before any remote call:
\* started on a stale session it issues the login, and it issues its remote
\* call either right after that login succeeded or from a session it found
\* authenticated.
C9_LoginBeforeCallWhenStale ==
    /\ (ev.op \in EntityOps /\ ev.step = "call" /\ ~authenticated) => ev.issued = "login"
    /\ (ev.op \in EntityOps /\ ev.issued \in RemoteCalls) =>
           \/ ev.step = "login" /\ ev.out = "ok"
           \/ ev.step = "call" /\ authenticated

C9_Witness ==
    ~available /\ ev.op = "area" /\ ev.step = "login" /\ ev.issued = "areacontrol"

\* C10: a stream URI served from the cache was produced by a manifest
\* resolution that happened after the most recent re-authentication.
CacheHit ==
    /\ ev.op = "stream" /\ ev.step \in {"call", "login"}
    /\ ev.ret \notin {"pending", "", "raised", "None"}

C10_CacheServedOnlyFresh == CacheHit => resolved_since_login

\* A stream resolution returned a URI / returned, with or without one.
StreamUri(ret) == ret \notin {"pending", "", "raised", "None"}
StreamResult(ret) == ret \notin {"pending", "", "raised"}
\* The step is a call of async_stream_source.
StreamCalled == ev'.op = "stream" /\ ev'.step = "call"

\* C11 as claimed: of two consecutive stream resolutions with the session still
\* authenticated at the second, the second returns what the first returned and
\* fetches no manifest, also when the first found no matching variant.
C11_SecondCallNeverFetches ==
    [][(ev.op = "stream" /\ StreamResult(ev.ret) /\ StreamCalled /\ authenticated) =>
           (ev'.issued = "none" /\ ev'.ret = ev.ret)]_vars

\* C11 amended: when a stream resolution returned a URI, the next call, made
\* with the session still authenticated, returns the same URI from the cache
\* and fetches no manifest; when it found no matching variant nothing was
\* cached, and the next call fetches the manifest again.
C11_SecondCallServedFromCache ==
    [][(ev.op = "stream" /\ StreamCalled /\ authenticated) =>
           /\ StreamUri(ev.ret) =>
                  /\ ev'.issued = "none" /\ ev'.ret = ev.ret
                  /\ last_stream_source' = ev.ret
           /\ ev.ret = "None" =>
                  /\ ev'.issued = "vod" /\ ev'.ret = "pending"]_vars

C11_Witness ==
    /\ ev.op = "stream" /\ ev.step = "call" /\ ev.issued = "none"
    /\ ev.ret = "norm2.m3u8" /\ authenticated

\* The bandwidth of a channel tier, and the URI of the first variant of the
\* manifest, in manifest order, whose bandwidth is that value ("None": no such
\* variant).
TierBandwidth(tier) ==
    CASE tier = "Low" -> 128000 [] tier = "Normal" -> 256000 [] tier = "High" -> 512000
FirstExact(manifest, bw) ==
    LET I == {i \in 1..Len(manifest) : manifest[i].bandwidth = bw}
    IN  IF I = {} THEN "None"
        ELSE manifest[CHOOSE i \in I : \A j \in I : i <= j].uri

\* C12: a stream resolution that finds the session authenticated and the cache
\* empty fetches the manifest of the configured tier (Normal when the option
\* was never set); when the manifest arrives with the cache still empty, the
\* call returns and caches the URI of the first variant whose bandwidth is
\* exactly the tier's (128000 / 256000 / 512000), and with no such variant it
\* returns None, raises nothing, and the cache stays empty.
C12_FirstExactVariant ==
    [][/\ \A opt \in ProfileOptions :
              (StreamCall(opt) /\ authenticated /\ last_stream_source = "None") =>
                  /\ ev'.issued = "vod"
                  /\ tasks' = tasks (+) SetToBag({Task("stream", "vod",
                                  <<IF opt = "unset" THEN "Normal" ELSE opt>>)})
       /\ \A k \in BagToSet(tasks), manifest \in Manifests :
              (StreamResumeVod(k, "ok", manifest, TRUE) /\ last_stream_source = "None") =>
                  /\ ev'.ret = FirstExact(manifest, TierBandwidth(k.arg[1]))
                  /\ last_stream_source' = ev'.ret
                  /\ available' = available]_vars

C12_Witness ==
    /\ ev.op = "stream" /\ ev.step = "vod" /\ ev.out = "ok"
    /\ ev.ret = "None" /\ last_stream_source = "None"

\* The step starts one area operation that carries the single command
\* (partition p, code c, zones not forced), submitted at once when the session
\* is authenticated.
StartsAreaCommand(p, c) ==
    LET cmd == <<[AreaID |-> p, AreaCommand |-> c, ForceZones |-> FALSE]>>
    IN  \E pc \in {"login", "areacontrol"} :
            /\ tasks' = tasks (+) SetToBag({Task("area", pc, cmd)})
            /\ pc = "areacontrol" => (ev'.issued = "areacontrol" /\ ev'.data = cmd)
            /\ pc = "login" => ev'.issued = "login"

\* C13: for every partition p, the disarm / arm-away / arm-home service of the
\* entity of p hands async_areacontrol exactly one command {AreaID p,
\* AreaCommand 6 / 2 / 3, ForceZones false}, and what the operation submits to
\* the module, at once or after its re-login, is that one command.
C13_AreaCommandEncoding ==
    [][/\ \A p \in entities :
              /\ async_alarm_disarm(p) => StartsAreaCommand(p, 6)
              /\ async_alarm_arm_away(p) => StartsAreaCommand(p, 2)
              /\ async_alarm_arm_home(p) => StartsAreaCommand(p, 3)
       /\ (ev'.op = "area" /\ ev'.step = "login" /\ ev'.issued = "areacontrol") =>
              \E k \in BagToSet(tasks) :
                  /\ k.op = "area" /\ k.pc = "login" /\ Len(k.arg) = 1
                  /\ ev'.data = k.arg
                  /\ tasks' = (tasks (-) SetToBag({k}))
                                  (+) SetToBag({Task("area", "areacontrol", k.arg)})
       /\ (ev'.op = "area" /\ ev'.step = "areacontrol") => ev'.issued = "none"]_vars

C13_Witness ==
    /\ ev.op = "area" /\ ev.step = "login" /\ ev.issued = "areacontrol"
    /\ ev.data = <<[AreaID |-> 2, AreaCommand |-> 2, ForceZones |-> FALSE]>>

\* C14: enabling recording submits action 3 and disabling submits action 4;
\* async_rod returns True exactly when the submission completed with result
\* code 33816578, and False for every other result code and for every failure
\* of the re-login or of the submission.
C14_RodResult ==
    [][/\ async_enable_recording =>
              \E pc \in {"login", "rod"} : tasks' = tasks (+) SetToBag({Task("rod", pc, <<3>>)})
       /\ async_disable_recording =>
              \E pc \in {"login", "rod"} : tasks' = tasks (+) SetToBag({Task("rod", pc, <<4>>)})
       /\ (ev'.op = "rod" /\ ev'.issued = "rod") =>
              \E k \in BagToSet(tasks') : k.op = "rod" /\ k.pc = "rod" /\ ev'.data = k.arg
       /\ (ev'.op = "rod" /\ ev'.ret # "pending") =>
              ev'.ret = IF ev'.step = "rod" /\ ev'.out = "ok" /\ ev'.data = <<33816578>>
                        THEN "True" ELSE "False"]_vars

CommandOps == {"area", "rod"}

\* C15: an area or recording command submits only from a session it found
\* authenticated or right after its own login succeeded, and whenever its
\* re-login fails, whatever the failure, it returns False and submits nothing.
C15_FailedReloginReturnsFailure ==
    /\ (ev.op \in CommandOps /\ ev.issued \in {"areacontrol", "rod"}) =>
           \/ ev.step = "login" /\ ev.out = "ok"
           \/ ev.step = "call" /\ authenticated
    /\ (ev.op \in CommandOps /\ ev.step = "login" /\ ev.out \in Failures) =>
           /\ ev.ret = "False"
           /\ ev.issued = "none"

\* The logins of entity operations that are in flight.
LoginsInFlight == {k \in BagToSet(tasks) : k.pc = "login"}

\* C17 as claimed: operations that found the same session stale issue a single
\* login between them: at most one login of an entity operation is in flight.
C17_SingleLoginAttempt ==
    \A k1, k2 \in LoginsInFlight : k1 = k2 /\ CopiesIn(k1, tasks) = 1

\* C17 amended: each operation that finds the session stale issues one login
\* of its own, when it is called and never again; each login the module
\* rejects ends its operation with available false and nothing submitted; and
\* available, once false, stays false while the entry is loaded, so it turns
\* false once however many of the interleaved logins are rejected.
C17_EachOperationLogsInOnce ==
    [][/\ (ev'.op \in EntityOps /\ ev'.issued = "login") =>
              /\ ev'.step = "call" /\ ~authenticated
              /\ BagCardinality(tasks') = BagCardinality(tasks) + 1
       /\ (ev'.op \in EntityOps /\ ev'.step = "login" /\ ev'.out = "auth") =>
              /\ ~available'
              /\ ev'.ret \in {"", "False"} /\ ev'.issued = "none"
              /\ BagCardinality(tasks') = BagCardinality(tasks) - 1
       /\ (~available /\ entry = "loaded" /\ entry' = "loaded") => ~available']_vars

C17_Witness ==
    /\ ev.op \in EntityOps /\ ev.step = "login" /\ ev.out = "auth" /\ ~available
    /\ \E k \in LoginsInFlight : k.op # ev.op

\* C18: every failure of the status fetch leaves async_update_alarm_panel as
\* UpdateFailed: with available unchanged on a connection/timeout failure, with
\* available false on an authorization failure; nothing else is raised and no
\* data is returned.
C18_PollFailureIsUpdateFailed ==
    [][(ev'.op = "poll" /\ ev'.step = "pingstatus" /\ ev'.out \in Failures) =>
           /\ ev'.ret = "UpdateFailed"
           /\ ev'.out \in Transient => available' = available
           /\ ev'.out = "auth" => ~available'
           /\ coordinator'.data = coordinator.data]_vars

\* C19: a step in which a post-setup operation fails with a connection or
\* timeout error leaves available as it was, and leaves the stream cache as it
\* was or empty.
C19_TransientKeepsAvailable ==
    [][(ev'.op \in PostSetupOps /\ ev'.out \in Transient) =>
           /\ available' = available
           /\ last_stream_source' \in {last_stream_source, "None"}]_vars

C19_Witness ==
    /\ ev.op = "stream" /\ ev.step = "vod" /\ ev.out = "timeout"
    /\ available /\ last_stream_source = "None"
    /\ \E k \in BagToSet(tasks) : k.op = "stream"

\* C20: every failure of a stream resolution, area command or recording
\* command (a manifest that does not parse and any unexpected error included)
\* comes back to the caller as the empty / False result: no exception leaves
\* the operation.
C20_NoExceptionEscapes ==
    (ev.op \in EntityOps) =>
        /\ ev.ret # "raised"
        /\ ev.out \in Failures => ev.ret \in {"", "False"}

\* C21: a status poll never logs in and never tests the session, whatever
\* authenticated and available are: started, it issues the status fetch and
\* nothing else; resumed, it returns (data or an error) without a second fetch,
\* a retry or a login; and it leaves the session state as it found it.
C21_PollNeverLogsIn ==
    [][(ev'.op = "poll") =>
           /\ authenticated' = authenticated
           /\ ev'.step = "call" =>
                  /\ ev'.issued = "pingstatus" /\ ev'.ret = "pending"
                  /\ ~coordinator.polling /\ coordinator'.polling
           /\ ev'.step # "call" =>
                  /\ ev'.step = "pingstatus"
                  /\ ev'.issued = "none" /\ ev'.ret # "pending"
                  /\ coordinator.polling /\ ~coordinator'.polling]_vars

C21_Witness ==
    /\ ev.op = "poll" /\ ev.step = "call" /\ ev.issued = "pingstatus"
    /\ ~authenticated /\ ~available

\* The records of a snapshot.
RecordsOf(snap) == {snap[i] : i \in 1..Len(snap)}

\* C22: the record an alarm entity serves when its state is read is the record
\* with its area id in the coordinator's latest snapshot; it serves no record
\* of an earlier poll once the latest snapshot lacks its id.
C22_RecordFromLatestSnapshot ==
    (ev.op = "state") =>
        ev.data[1] \in RecordsOf(coordinator.data)

\* C23: async_areacontrol never issues a status fetch; the entity asks the
\* coordinator for a refresh only in the step in which the command operation
\* ended, and after every command, whether it succeeded or failed.
C23_RefreshAfterEveryCommand ==
    (ev.op = "area") =>
        /\ ev.issued # "pingstatus"
        /\ ev.refresh <=> ev.ret # "pending"

\* C24: once setup has built device_info and panel_info, no step of a poll, an
\* area command, a recording command or a stream resolution, a successful
\* re-login included, changes either of them.
C24_IdentitiesStay ==
    [][(ev'.op \in PostSetupOps \cup {"state", "expire"}) =>
           /\ device_info' = device_info
           /\ panel_info' = panel_info]_vars

C24_Witness ==
    /\ ev.op = "area" /\ ev.step = "login" /\ ev.out = "ok"
    /\ device_info = DeviceInfo("module", MaxSerial)
    /\ panel_info = DeviceInfo("Paradox Control Panel", 1)

\* C25: available implies that device_info and panel_info are both populated,
\* and a setup login whose response has no control-panel section leaves
\* available false.
C25_AvailableImpliesIdentities ==
    /\ available => (device_info # NoInfo /\ panel_info # NoInfo)
    /\ (SetupReturned /\ ev.out = "ok" /\ ~ev.data[1].cp.present) => ~available

C25_Witness ==
    /\ available /\ entry = "loaded" /\ ev.op = "rod" /\ ev.ret = "True"
    /\ device_info.serial = 1 /\ panel_info.serial = MaxSerial

\* C26: whenever async_stream_source returns the empty string (connection /
\* timeout, authorization or caught unexpected error), the stream cache is
\* empty at that moment.
C26_FailureLeavesCacheEmpty ==
    (ev.op = "stream" /\ ev.ret = "") => last_stream_source = "None"

\* C27: the device enters the registry only in the step in which its setup
\* returned True with available true; a coordinator comes to exist only for a
\* registered, available device whose platforms include the alarm panel, and
\* is refreshed at once; an unload removes the device from the registry exactly
\* when every platform unloaded, and nothing else removes it.
C27_RegistryFollowsSetupAndUnload ==
    [][/\ (~registered /\ registered') =>
              /\ ev'.op = "setup" /\ ev'.step = "login" /\ ev'.ret = "True"
              /\ available'
       /\ (~coordinator.exists /\ coordinator'.exists) =>
              /\ registered' /\ available'
              /\ CONF_ALARM_CONTROL_PANEL \in platforms
              /\ coordinator'.polling /\ ev'.issued = "pingstatus"
       /\ coordinator'.exists =>
              (registered' /\ CONF_ALARM_CONTROL_PANEL \in platforms')
       /\ \A unloaded \in SUBSET AllPlatforms :
              UnloadEntry(unloaded) =>
                  /\ registered
                  /\ registered' <=> unloaded # platforms
                  /\ ev'.ret = "True" <=> unloaded = platforms
       /\ (registered /\ ~registered') =>
              (ev'.op = "unload" /\ ev'.ret = "True")]_vars

C27_Witness ==
    /\ ev.op = "unload" /\ ev.ret = "False"
    /\ registered /\ coordinator.exists /\ forwarded = {CONF_ALARM_CONTROL_PANEL}

\* The state the entity reports for a record.
ExpectedState(record) ==
    IF record.InAlarm THEN "triggered"
    ELSE CASE record.ArmingLevelID = 0 -> "disarmed"
           [] record.ArmingLevelID = 1 -> "armed_away"
           [] record.ArmingLevelID = 3 -> "armed_home"
           [] record.ArmingLevelID = 5 -> "arming"
           [] OTHER -> "unknown"

\* C28: the state of an alarm entity is triggered whenever its record has
\* InAlarm true, whatever the arming level; otherwise disarmed for level 0,
\* armed-away for 1, armed-home for 3, arming for 5 and unknown for any other.
C28_StateMapping ==
    (ev.op = "state") =>
        /\ ev.ret = ExpectedState(ev.data[1])
        /\ \E p \in entities : partition[p] = ev.data[1] /\ ev.data[1].AreaId = p

C28_Witness ==
    /\ ev.op = "state" /\ ev.ret = "triggered"
    /\ ev.data[1].InAlarm /\ ev.data[1].ArmingLevelID = 0

====
